---- MODULE Spec2Model ----
(***************************************************************************)
(* Model of src/cgaladv.cc: the builtin modules minkowski, glide, subdiv,  *)
(* hull and resize.  CgaladvModule::evaluate turns the values bound to a   *)
(* module's declared parameters into a CgaladvNode; CgaladvNode::name and  *)
(* CgaladvNode::toString render a node; register_builtin_cgaladv enters    *)
(* the five modules in the builtin table.                                  *)
(*                                                                         *)
(* Representation.  A double is an integer count of tenths (29 is 2.9),    *)
(* kept well inside the range of int.  A std::string is a sequence of      *)
(* one-character strings.  Output text (a warning, a rendered node) is a   *)
(* sequence of string pieces written to the stream in order.               *)
(***************************************************************************)
EXTENDS Integers, Sequences, FiniteSets

VARIABLES
    phase,      \* "startup" before register_builtin_cgaladv has run, then "ready"
    builtins,   \* the calls made to Builtins::init, in order: [name, type]
    calls       \* the nodes of the current tree, in order of construction,
                \* each with the call that built it and what was rendered of it

vars == <<phase, builtins, calls>>

----------------------------------------------------------------------------
(* Bounds *)

\* Longest vector bound to a parameter.
MaxVecLen == 4

\* Most nodes in one tree (specification SpecTree).
MaxNodes == 3

----------------------------------------------------------------------------
(* Value: the dynamically typed value bound to a parameter *)

Undef == [tag |-> "undefined"]
Bool(b) == [tag |-> "bool", b |-> b]
Num(n) == [tag |-> "number", n |-> n]
Str(s) == [tag |-> "string", s |-> s]
Vec(v) == [tag |-> "vector", v |-> v]

\* Value::type()
ValueType(v) == v.tag

\* Value::isUndefined()
isUndefined(v) == v.tag = "undefined"

\* Value::toDouble(): the number, 0 for every other tag
toDouble(v) == IF v.tag = "number" THEN v.n ELSE 0

\* Value::toBool()
toBool(v) ==
    CASE v.tag = "undefined" -> FALSE
      [] v.tag = "bool" -> v.b
      [] v.tag = "number" -> v.n # 0
      [] v.tag = "string" -> Len(v.s) > 0
      [] v.tag = "vector" -> Len(v.v) > 0

\* Value::toVector(): the elements, none for every other tag
toVector(v) == IF v.tag = "vector" THEN v.v ELSE <<>>

Digit == <<"0", "1", "2", "3", "4", "5", "6", "7", "8", "9">>

RECURSIVE NatStr(_)
\* operator<<(int) on a non-negative int: its decimal digits
NatStr(n) == IF n < 10 THEN <<Digit[n + 1]>>
             ELSE NatStr(n \div 10) \o <<Digit[(n % 10) + 1]>>

\* operator<<(int)
IntStr(n) == IF n < 0 THEN <<"-">> \o NatStr(-n) ELSE NatStr(n)

\* operator<<(double) on a count of tenths: 29 is "2.9", 20 is "2", -5 is "-0.5"
DoubleStr(x) ==
    LET a == IF x < 0 THEN -x ELSE x
        body == IF a % 10 = 0 THEN NatStr(a \div 10)
                ELSE NatStr(a \div 10) \o <<".">> \o NatStr(a % 10)
    IN  IF x < 0 THEN <<"-">> \o body ELSE body

\* operator<<(bool) without boolalpha
BoolStr(b) == IF b THEN <<"1">> ELSE <<"0">>

RECURSIVE JoinStr(_, _)
\* the texts of ts separated by ", "
JoinStr(ts, i) ==
    IF i > Len(ts) THEN <<>>
    ELSE (IF i > 1 THEN <<",", " ">> ELSE <<>>) \o ts[i] \o JoinStr(ts, i + 1)

\* Value::toString() of a value that is not a vector
ScalarToString(v) ==
    CASE v.tag = "undefined" -> <<"u", "n", "d", "e", "f">>
      [] v.tag = "bool" -> IF v.b THEN <<"t", "r", "u", "e">>
                           ELSE <<"f", "a", "l", "s", "e">>
      [] v.tag = "number" -> DoubleStr(v.n)
      [] v.tag = "string" -> v.s
      [] OTHER -> <<>>

\* Value::toString()
toString_Value(v) ==
    IF v.tag = "vector"
    THEN <<"[">> \o JoinStr([i \in 1..Len(v.v) |-> ScalarToString(v.v[i])], 1)
         \o <<"]">>
    ELSE ScalarToString(v)

\* operator<<(std::ostream, Value): a string is quoted
ValueRepr(v) ==
    IF v.tag = "string" THEN <<"\"">> \o v.s \o <<"\"">> ELSE toString_Value(v)

UpperCase == <<"A", "B", "C", "D", "E", "F", "G", "H", "I", "J", "K", "L", "M",
               "N", "O", "P", "Q", "R", "S", "T", "U", "V", "W", "X", "Y", "Z">>
LowerCase == <<"a", "b", "c", "d", "e", "f", "g", "h", "i", "j", "k", "l", "m",
               "n", "o", "p", "q", "r", "s", "t", "u", "v", "w", "x", "y", "z">>

\* std::tolower on one character
ToLowerChar(c) ==
    IF \E i \in 1..26 : UpperCase[i] = c
    THEN LowerCase[CHOOSE i \in 1..26 : UpperCase[i] = c]
    ELSE c

\* std::toupper on one character (used to build mixed-case inputs)
ToUpperChar(c) ==
    IF \E i \in 1..26 : LowerCase[i] = c
    THEN UpperCase[CHOOSE i \in 1..26 : LowerCase[i] = c]
    ELSE c

\* boost::algorithm::to_lower
to_lower(s) == [i \in 1..Len(s) |-> ToLowerChar(s[i])]

----------------------------------------------------------------------------
(* cgaladv_type_e, the subdivision enumerators and the node *)

MINKOWSKI == "MINKOWSKI"
GLIDE == "GLIDE"
SUBDIV == "SUBDIV"
HULL == "HULL"
RESIZE == "RESIZE"

\* cgaladv_type_e
cgaladv_type_e == {MINKOWSKI, GLIDE, SUBDIV, HULL, RESIZE}

SUBDIV_CATMULL_CLARK == "SUBDIV_CATMULL_CLARK"
SUBDIV_LOOP == "SUBDIV_LOOP"
SUBDIV_DOO_SABIN == "SUBDIV_DOO_SABIN"
SUBDIV_SQRT3 == "SUBDIV_SQRT3"

\* the four subdivision enumerators
subdiv_type_e == {SUBDIV_CATMULL_CLARK, SUBDIV_LOOP, SUBDIV_DOO_SABIN, SUBDIV_SQRT3}

\* What the fields that evaluate does not assign may hold after construction:
\* zeroed memory, or whatever was there before.
Junk ==
    { [subdiv_level |-> 0, subdiv_type |-> SUBDIV_CATMULL_CLARK,
       newsize |-> <<0, 0, 0>>, autosize |-> <<FALSE, FALSE, FALSE>>],
      [subdiv_level |-> -7, subdiv_type |-> "SUBDIV_INVALID",
       newsize |-> <<-13, 4, 250>>, autosize |-> <<TRUE, FALSE, TRUE>>] }

\* new CgaladvNode(inst, type): the type is set, no child yet
NewNode(type, junk) ==
    [type |-> type, convexity |-> 1, path |-> Undef,
     subdiv_level |-> junk.subdiv_level, subdiv_type |-> junk.subdiv_type,
     newsize |-> junk.newsize, autosize |-> junk.autosize,
     children |-> <<>>]

----------------------------------------------------------------------------
(* CgaladvModule::evaluate *)

\* argnames: the declared parameters of a module, in order
argnames(type) ==
    CASE type = MINKOWSKI -> <<"convexity">>
      [] type = GLIDE -> <<"path", "convexity">>
      [] type = SUBDIV -> <<"level", "type", "convexity">>
      [] type = RESIZE -> <<"newsize", "auto">>
      [] OTHER -> <<>>

\* the names of a sequence
Range(s) == {s[i] : i \in 1..Len(s)}

\* Context::lookup_variable in the scope c.args built: the value bound to a
\* declared name, undefined for any other name
lookup_variable(c, name) == IF name \in DOMAIN c THEN c[name] ELSE Undef

\* Seeded fault: the cast rounds down instead of towards zero.
CastInt_Floor(d) == d \div 10

\* (int) of a double: the fraction is dropped, towards zero
CastInt(d) == IF d >= 0 THEN d \div 10 ELSE -((-d) \div 10)

\* Seeded fault: the swap does not test the type value's tag.
SwapLevelType_Eager(subdiv_level, subdiv_typeval) ==
    IF ValueType(subdiv_level) = "string"
    THEN <<subdiv_typeval, subdiv_level>>
    ELSE <<subdiv_level, subdiv_typeval>>

\* enable subdiv("loop",1) or subdiv(1,"loop"): <<level, type>> after the swap
SwapLevelType(subdiv_level, subdiv_typeval) ==
    IF ValueType(subdiv_level) = "string" /\ ValueType(subdiv_typeval) = "number"
    THEN <<subdiv_typeval, subdiv_level>>
    ELSE <<subdiv_level, subdiv_typeval>>

WarnLevel == <<"WARNING: Subdivision cannot be less than 0. Setting to 0.">>
WarnUnknownType(subdiv_type) == <<"WARNING: unknown subdivision type ">> \o subdiv_type
WarnSetting == <<"WARNING: setting to CatmullClark">>

\* Seeded fault: the negative level is not corrected.
ResolveLevel_NoClamp(r, subdiv_level) ==
    [r EXCEPT !.node.subdiv_level = IF isUndefined(subdiv_level) THEN 1
                                    ELSE CastInt(toDouble(subdiv_level))]

\* node->subdiv_level from the level value, with the warnings printed
ResolveLevel(r, subdiv_level) ==
    LET l == IF isUndefined(subdiv_level) THEN 1
             ELSE CastInt(toDouble(subdiv_level))
    IN  IF l < 0
        THEN [node |-> [r.node EXCEPT !.subdiv_level = 0],
              warnings |-> Append(r.warnings, WarnLevel)]
        ELSE [node |-> [r.node EXCEPT !.subdiv_level = l],
              warnings |-> r.warnings]

s_catmullclark == <<"c", "a", "t", "m", "u", "l", "l", "c", "l", "a", "r", "k">>
s_catmull_clark == <<"c", "a", "t", "m", "u", "l", "l", " ", "c", "l", "a", "r", "k">>
s_loop == <<"l", "o", "o", "p">>
s_doosabin == <<"d", "o", "o", "s", "a", "b", "i", "n">>
s_doo_sabin == <<"d", "o", "o", " ", "s", "a", "b", "i", "n">>
s_sqrt3 == <<"s", "q", "r", "t", "3">>
s_sqrt_3 == <<"s", "q", "r", "t", " ", "3">>

\* Seeded fault: the text is compared as written, not in lower case.
TypeText_CaseSensitive(subdiv_typeval) ==
    IF ~isUndefined(subdiv_typeval) THEN toString_Value(subdiv_typeval)
    ELSE s_catmullclark

\* subdiv_type: the type value's text in lower case, "catmullclark" by default
TypeText(subdiv_typeval) ==
    to_lower(IF ~isUndefined(subdiv_typeval) THEN toString_Value(subdiv_typeval)
             ELSE s_catmullclark)

NoMatch == "no match"

\* the enumerator a text names, NoMatch when the else branch is taken
MatchedType(subdiv_type) ==
    IF subdiv_type = s_catmullclark \/ subdiv_type = s_catmull_clark
    THEN SUBDIV_CATMULL_CLARK
    ELSE IF subdiv_type = s_loop
    THEN SUBDIV_LOOP
    ELSE IF subdiv_type = s_doosabin \/ subdiv_type = s_doo_sabin
    THEN SUBDIV_DOO_SABIN
    ELSE IF subdiv_type = s_sqrt3 \/ subdiv_type = s_sqrt_3
    THEN SUBDIV_SQRT3
    ELSE NoMatch

\* Seeded fault: the else branch prints one warning, not two.
MatchType_OneWarning(r, subdiv_type) ==
    IF MatchedType(subdiv_type) # NoMatch
    THEN [r EXCEPT !.node.subdiv_type = MatchedType(subdiv_type)]
    ELSE [node |-> [r.node EXCEPT !.subdiv_type = SUBDIV_CATMULL_CLARK],
          warnings |-> r.warnings \o <<WarnUnknownType(subdiv_type)>>]

\* Seeded fault: the else branch warns and leaves the field as constructed.
MatchType_NoFallback(r, subdiv_type) ==
    IF MatchedType(subdiv_type) # NoMatch
    THEN [r EXCEPT !.node.subdiv_type = MatchedType(subdiv_type)]
    ELSE [r EXCEPT !.warnings = r.warnings \o <<WarnUnknownType(subdiv_type), WarnSetting>>]

\* node->subdiv_type from the lowered text, with the warnings printed
MatchType(r, subdiv_type) ==
    IF MatchedType(subdiv_type) # NoMatch
    THEN [r EXCEPT !.node.subdiv_type = MatchedType(subdiv_type)]
    ELSE [node |-> [r.node EXCEPT !.subdiv_type = SUBDIV_CATMULL_CLARK],
          warnings |-> r.warnings \o <<WarnUnknownType(subdiv_type), WarnSetting>>]

\* Seeded fault: a component is copied only when a later one exists too.
ResolveNewsize_OffByOne(r, ns) ==
    LET vs == toVector(ns)
        at(i) == IF ValueType(ns) = "vector" /\ Len(vs) > i
                 THEN toDouble(vs[i]) ELSE 0
    IN  [r EXCEPT !.node.newsize = <<at(1), at(2), at(3)>>]

\* node->newsize from the newsize value
ResolveNewsize(r, ns) ==
    LET vs == toVector(ns)
        at(i) == IF ValueType(ns) = "vector" /\ Len(vs) >= i
                 THEN toDouble(vs[i]) ELSE 0
    IN  [r EXCEPT !.node.newsize = <<at(1), at(2), at(3)>>]

\* node->autosize from the auto value
ResolveAutosize(r, autosize) ==
    LET va == toVector(autosize)
        at(i) == IF Len(va) >= i THEN toBool(va[i]) ELSE FALSE
    IN  IF ValueType(autosize) = "vector"
        THEN [r EXCEPT !.node.autosize = <<at(1), at(2), at(3)>>]
        ELSE IF ValueType(autosize) = "bool"
        THEN [r EXCEPT !.node.autosize = <<TRUE, TRUE, TRUE>>]
        ELSE [r EXCEPT !.node.autosize = <<FALSE, FALSE, FALSE>>]

\* the SUBDIV branch
ResolveSubdiv(r, c) ==
    LET sw == SwapLevelType(lookup_variable(c, "level"), lookup_variable(c, "type"))
    IN  MatchType(ResolveLevel(r, sw[1]), TypeText(sw[2]))

\* the RESIZE branch
ResolveResize(r, c) ==
    ResolveAutosize(ResolveNewsize(r, lookup_variable(c, "newsize")),
                    lookup_variable(c, "auto"))

\* CgaladvModule::evaluate for a module of this type, the scope c that c.args
\* built and the children inst->evaluateChildren() returned: the node and
\* the warnings printed, in order
evaluate(type, c, junk, evaluatednodes) ==
    LET r0 == [node |-> NewNode(type, junk), warnings |-> <<>>]
        convexity == IF type \in {MINKOWSKI, GLIDE, SUBDIV}
                     THEN lookup_variable(c, "convexity") ELSE Undef
        path == IF type = GLIDE THEN lookup_variable(c, "path") ELSE Undef
        r1 == IF type = SUBDIV THEN ResolveSubdiv(r0, c)
              ELSE IF type = RESIZE THEN ResolveResize(r0, c)
              ELSE r0
    IN  [node |-> [r1.node EXCEPT !.convexity = CastInt(toDouble(convexity)),
                                  !.path = path,
                                  !.children = evaluatednodes],
         warnings |-> r1.warnings]

----------------------------------------------------------------------------
(* CgaladvNode::name and CgaladvNode::toString *)

\* what the default branch, assert(false), leaves
AssertFailed == "assert(false)"

\* CgaladvNode::name
name(node) ==
    CASE node.type = MINKOWSKI -> "minkowski"
      [] node.type = GLIDE -> "glide"
      [] node.type = SUBDIV -> "subdiv"
      [] node.type = HULL -> "hull"
      [] node.type = RESIZE -> "resize"
      [] OTHER -> AssertFailed

\* operator<< of a subdivision enumerator
EnumStr(e) == <<e>>

\* Seeded fault: the minkowski branch prints a field evaluate never set.
MinkowskiArgs_Leaky(node) ==
    <<"(convexity = ">> \o IntStr(node.convexity)
    \o <<", level = ">> \o IntStr(node.subdiv_level) \o <<")">>

\* the MINKOWSKI branch of toString
MinkowskiArgs(node) == <<"(convexity = ">> \o IntStr(node.convexity) \o <<")">>

\* CgaladvNode::toString
toString(node) ==
    <<name(node)>> \o
    CASE node.type = MINKOWSKI -> MinkowskiArgs(node)
      [] node.type = GLIDE ->
            <<"(path = ">> \o ValueRepr(node.path) \o <<", convexity = ">>
            \o IntStr(node.convexity) \o <<")">>
      [] node.type = SUBDIV ->
            <<"(type = ">> \o EnumStr(node.subdiv_type) \o <<", level = ">>
            \o IntStr(node.subdiv_level) \o <<", convexity = ">>
            \o IntStr(node.convexity) \o <<")">>
      [] node.type = HULL -> <<"()">>
      [] node.type = RESIZE ->
            <<"(newsize = [">>
            \o DoubleStr(node.newsize[1]) \o <<",">> \o DoubleStr(node.newsize[2])
            \o <<",">> \o DoubleStr(node.newsize[3]) \o <<"]">>
            \o <<", auto = [">>
            \o BoolStr(node.autosize[1]) \o <<",">> \o BoolStr(node.autosize[2])
            \o <<",">> \o BoolStr(node.autosize[3]) \o <<"]">>
            \o <<")">>
      [] OTHER -> <<AssertFailed>>

----------------------------------------------------------------------------
(* register_builtin_cgaladv *)

Keywords == {"minkowski", "glide", "subdiv", "hull", "resize"}

\* Seeded fault: two lines of the table were copied and only half edited.
register_builtin_cgaladv_Mixup ==
    << [name |-> "minkowski", type |-> MINKOWSKI],
       [name |-> "glide", type |-> GLIDE],
       [name |-> "subdiv", type |-> SUBDIV],
       [name |-> "hull", type |-> RESIZE],
       [name |-> "resize", type |-> RESIZE] >>

\* the five Builtins::init calls, in order
register_builtin_cgaladv ==
    << [name |-> "minkowski", type |-> MINKOWSKI],
       [name |-> "glide", type |-> GLIDE],
       [name |-> "subdiv", type |-> SUBDIV],
       [name |-> "hull", type |-> HULL],
       [name |-> "resize", type |-> RESIZE] >>

\* the module the dispatcher finds under a keyword: the last one entered
BuiltinType(tbl, kw) ==
    tbl[CHOOSE i \in 1..Len(tbl) :
            tbl[i].name = kw /\ \A j \in (i + 1)..Len(tbl) : tbl[j].name # kw].type

IsBuiltin(tbl, kw) == \E i \in 1..Len(tbl) : tbl[i].name = kw

----------------------------------------------------------------------------
(* The values the calls are tried with *)

\* every sequence over S of length at most n
SeqsUpTo(S, n) == UNION {[1..k -> S] : k \in 0..n}

RECURSIVE CaseMixes(_)
\* a text in every mix of upper and lower case
CaseMixes(s) ==
    IF s = <<>> THEN {<<>>}
    ELSE {<<ch>> \o rest : ch \in {s[1], ToUpperChar(s[1])}, rest \in CaseMixes(Tail(s))}

AllUpper(s) == [i \in 1..Len(s) |-> ToUpperChar(s[i])]

\* first letter, and the letter after a space, in upper case
Capitalised(s) ==
    [i \in 1..Len(s) |-> IF i = 1 \/ s[i - 1] = " " THEN ToUpperChar(s[i]) ELSE s[i]]

s_bogus == <<"b", "o", "g", "u", "s">>

\* the seven texts the type is matched against
KnownTypeTexts ==
    {s_catmullclark, s_catmull_clark, s_loop, s_doosabin, s_doo_sabin, s_sqrt3, s_sqrt_3}

\* near misses and other texts no type is called
UnknownTypeTexts ==
    { s_bogus, <<>>, <<"l", "o", "o", "p", " ">>, <<"l", "o", "o", "p", "s">>,
      <<"L", "0", "0", "P">>, <<"s", "q", "r", "t">>, <<"S", "q", "r", "t", "(", "3", ")">>,
      <<"d", "o", "o", "-", "s", "a", "b", "i", "n">>,
      <<"C", "a", "t", "m", "u", "l", "l", "_", "C", "l", "a", "r", "k">>,
      <<"c", "a", "t", "m", "u", "l", "l">>, <<"1">>, <<"t", "r", "u", "e">> }

TypeTexts ==
    KnownTypeTexts \cup {AllUpper(s) : s \in KnownTypeTexts}
    \cup {Capitalised(s) : s \in KnownTypeTexts}
    \cup CaseMixes(s_loop) \cup CaseMixes(s_sqrt3)
    \cup { <<"C", "a", "t", "m", "u", "l", "l", "C", "l", "a", "r", "k">>,
           <<"D", "o", "o", "S", "a", "b", "i", "n">>,
           <<"d", "O", "O", " ", "s", "A", "b", "I", "n">> }
    \cup UnknownTypeTexts

\* doubles, in tenths: -2.9, -1, -0.4, 0, 0.5, 1, 2.9
NumValues == {Num(n) : n \in {-29, -10, -4, 0, 5, 10, 29}}

\* the values each parameter is given in specification Spec: every tag for
\* every parameter, and the cases each parameter's code distinguishes
CallValues ==
    [ convexity |-> {Undef, Bool(TRUE), Str(s_loop), Vec(<<Num(29)>>)} \cup NumValues,
      path |-> {Undef, Bool(FALSE), Num(10), Str(s_loop), Vec(<<Num(0), Num(10)>>)},
      level |-> {Undef, Bool(TRUE), Vec(<<>>), Str(s_loop), Str(AllUpper(s_sqrt3)),
                 Str(s_bogus)} \cup NumValues,
      type |-> {Undef, Bool(TRUE), Num(10), Num(-29), Vec(<<>>)}
               \cup {Str(s) : s \in TypeTexts},
      newsize |-> {Undef, Bool(TRUE), Num(29), Str(s_loop)}
                  \cup {Vec(v) : v \in SeqsUpTo({Num(15), Num(-29), Bool(TRUE)}, MaxVecLen)},
      auto |-> {Undef, Bool(TRUE), Bool(FALSE), Num(10), Str(s_loop)}
               \cup {Vec(v) : v \in SeqsUpTo({Bool(TRUE), Bool(FALSE)}, MaxVecLen)} ]

\* the one value each parameter is given in specification SpecTree, where
\* the nodes of a tree differ in what they were built after and on top of
TreeValues ==
    [ convexity |-> {Num(29)},
      path |-> {Str(s_loop)},
      level |-> {Num(10)},
      type |-> {Str(AllUpper(s_loop))},
      newsize |-> {Vec(<<Num(15)>>)},
      auto |-> {Bool(TRUE)} ]

\* the scopes c.args can build for a module: a value for each declared name
Scopes(D, type) ==
    CASE type = MINKOWSKI -> {[convexity |-> cv] : cv \in D.convexity}
      [] type = GLIDE ->
            {[path |-> p, convexity |-> cv] : p \in D.path, cv \in D.convexity}
      [] type = SUBDIV ->
            {[level |-> l, type |-> t, convexity |-> cv] :
                l \in D.level, t \in D.type, cv \in D.convexity}
      [] type = RESIZE ->
            {[newsize |-> ns, auto |-> a] : ns \in D.newsize, a \in D.auto}
      [] OTHER -> {<<>>}

----------------------------------------------------------------------------
(* The state machine *)

RECURSIVE Ascending(_)
\* a set of indices as a sequence, smallest first
Ascending(S) ==
    IF S = {} THEN <<>>
    ELSE LET m == CHOOSE x \in S : \A y \in S : x <= y
         IN  <<m>> \o Ascending(S \ {m})

\* the nodes built so far that are no node's child yet
Unattached(cs) ==
    {i \in 1..Len(cs) : \A j \in 1..Len(cs) : i \notin Range(cs[j].node.children)}

\* what inst->evaluateChildren() returns: no node, or the nodes built before
\* that have no parent yet, in order
ChildLists(cs) == {<<>>, Ascending(Unattached(cs))}

Init ==
    /\ phase = "startup"
    /\ builtins = <<>>
    /\ calls = <<>>

\* register_builtin_cgaladv, run once at startup
Register ==
    /\ phase = "startup"
    /\ phase' = "ready"
    /\ builtins' = builtins \o register_builtin_cgaladv
    /\ UNCHANGED calls

\* the dispatcher finds the module under a keyword and calls its evaluate
\* with a scope over D, while the tree has fewer than cap nodes
EvaluateIn(D, cap) ==
    /\ phase = "ready"
    /\ Len(calls) < cap
    /\ \E kw \in {builtins[i].name : i \in 1..Len(builtins)} :
         LET type == BuiltinType(builtins, kw)
         IN  \E c \in Scopes(D, type), junk \in Junk, kids \in ChildLists(calls) :
               LET r == evaluate(type, c, junk, kids)
               IN  calls' = Append(calls,
                       [keyword |-> kw, scope |-> c, node |-> r.node,
                        warnings |-> r.warnings, rendered |-> FALSE,
                        name |-> "", str |-> <<>>])
    /\ UNCHANGED <<phase, builtins>>

\* one call site
Evaluate == EvaluateIn(CallValues, 1)

\* a call site in a tree of up to MaxNodes nodes
EvaluateTree == EvaluateIn(TreeValues, MaxNodes)

\* name() and toString() of a node of the tree
Render ==
    /\ \E i \in 1..Len(calls) :
         /\ ~calls[i].rendered
         /\ calls' = [calls EXCEPT ![i].rendered = TRUE,
                                   ![i].name = name(calls[i].node),
                                   ![i].str = toString(calls[i].node)]
    /\ UNCHANGED <<phase, builtins>>

\* the tree is torn down
Destroy ==
    /\ calls # <<>>
    /\ calls' = <<>>
    /\ UNCHANGED <<phase, builtins>>

Next == Register \/ Evaluate \/ Render \/ Destroy

Spec == Init /\ [][Next]_vars

NextTree == Register \/ EvaluateTree \/ Render \/ Destroy

SpecTree == Init /\ [][NextTree]_vars

----------------------------------------------------------------------------
(* Properties.  They speak of the calls recorded in `calls`: the values a  *)
(* call bound, the node evaluate returned, the warnings it printed and     *)
(* what name() and toString() gave.  What they expect is written out here  *)
(* on its own terms, not with the operators of evaluate.                   *)

Built == {calls[i] : i \in 1..Len(calls)}

BuiltBy(kw) == {e \in Built : e.keyword = kw}

\* a count of tenths truncated towards zero to a whole number
TruncTowardZero(x) ==
    IF x >= 0 THEN CHOOSE k \in 0..x : 10 * k <= x /\ x < 10 * k + 10
    ELSE -(CHOOSE k \in 0..(-x) : 10 * k <= -x /\ -x < 10 * k + 10)

\* the number a value stands for where a number is wanted
NumberOf(v) == IF v.tag = "number" THEN v.n ELSE 0

\* two texts equal up to the case of their letters
SameIgnoringCase(s, u) ==
    /\ Len(s) = Len(u)
    /\ \A i \in 1..Len(s) : ToUpperChar(s[i]) = ToUpperChar(u[i])

\* the swap rule applies to a subdiv call's bindings
SwapCase(c) == c.level.tag = "string" /\ c.type.tag = "number"

\* the values interpreted as level and as type once the swap rule is applied
LevelValue(c) == IF SwapCase(c) THEN c.type ELSE c.level
TypeValue(c) == IF SwapCase(c) THEN c.level ELSE c.type

\* the enumerator the type value names, whatever the case of its letters
NamedType(v) ==
    IF v.tag # "string" THEN SUBDIV_CATMULL_CLARK
    ELSE IF SameIgnoringCase(v.s, s_loop) THEN SUBDIV_LOOP
    ELSE IF SameIgnoringCase(v.s, s_doosabin) \/ SameIgnoringCase(v.s, s_doo_sabin)
    THEN SUBDIV_DOO_SABIN
    ELSE IF SameIgnoringCase(v.s, s_sqrt3) \/ SameIgnoringCase(v.s, s_sqrt_3)
    THEN SUBDIV_SQRT3
    ELSE SUBDIV_CATMULL_CLARK

\* the type value is a text that names no type
Unmatched(v) ==
    /\ v.tag # "undefined"
    /\ v.tag = "string" => \A k \in KnownTypeTexts : ~SameIgnoringCase(v.s, k)

\* the parameters of a node: the fields its variant has
Params(node) ==
    CASE node.type = MINKOWSKI -> [convexity |-> node.convexity]
      [] node.type = GLIDE -> [path |-> node.path, convexity |-> node.convexity]
      [] node.type = SUBDIV ->
            [type |-> node.subdiv_type, level |-> node.subdiv_level,
             convexity |-> node.convexity]
      [] node.type = RESIZE -> [newsize |-> node.newsize, auto |-> node.autosize]
      [] OTHER -> <<>>

(* C1: for every scalar boolean b bound to auto, a resize call resolves     *)
(* autosize to (b,b,b): all true for true, the default all false for false. *)
C1_AutoScalarBool ==
    \A e \in BuiltBy("resize") :
        e.scope.auto.tag = "bool" =>
            e.node.autosize = <<e.scope.auto.b, e.scope.auto.b, e.scope.auto.b>>

(* C2: a subdiv call with level bound to a text s and type bound to a       *)
(* number n resolves to the same level, type, convexity and warnings as the *)
(* call with level bound to n and type bound to s; and in every other       *)
(* combination of tags the level value is read as the level and the type    *)
(* value as the type.                                                       *)
C2_SwapRule ==
    \A e \in BuiltBy("subdiv") :
        LET c == e.scope
        IN  /\ SwapCase(c) =>
                \A junk \in Junk :
                    LET o == evaluate(SUBDIV, [level |-> c.type, type |-> c.level,
                                               convexity |-> c.convexity], junk, <<>>)
                    IN  /\ Params(e.node) = Params(o.node)
                        /\ e.warnings = o.warnings
            /\ ~SwapCase(c) =>
                /\ c.level.tag = "undefined" => e.node.subdiv_level = 1
                /\ c.level.tag = "string" => e.node.subdiv_level = 0
                /\ c.level.tag = "number" /\ c.level.n >= 0 =>
                        e.node.subdiv_level = TruncTowardZero(c.level.n)
                /\ e.node.subdiv_type = NamedType(c.type)

C2_Witness ==
    \E e \in BuiltBy("subdiv") :
        /\ SwapCase(e.scope)
        /\ e.scope.level.s = AllUpper(s_sqrt3)
        /\ e.scope.type.n = 10
        /\ e.node.subdiv_type = SUBDIV_SQRT3
        /\ e.node.subdiv_level = 1
        /\ e.warnings = <<>>

(* C3: the level of a subdiv node is never negative: 1 when the level value *)
(* (after the swap rule) is undefined, otherwise the value's number         *)
(* truncated to a whole number, and 0 when that is below 0.                 *)
C3_LevelClamped ==
    \A e \in BuiltBy("subdiv") :
        LET lv == LevelValue(e.scope)
            tr == TruncTowardZero(NumberOf(lv))
        IN  /\ e.node.subdiv_level >= 0
            /\ lv.tag = "undefined" => e.node.subdiv_level = 1
            /\ lv.tag # "undefined" =>
                    e.node.subdiv_level = IF tr < 0 THEN 0 ELSE tr

C3_Witness ==
    \E e \in BuiltBy("subdiv") :
        /\ LevelValue(e.scope) = Num(-29)
        /\ e.node.subdiv_level = 0

(* C4: the type of a subdiv node is always one of the four enumerators:     *)
(* CatmullClark for an undefined type value, the enumerator whose name the  *)
(* text is in any mix of upper and lower case, CatmullClark for every other *)
(* text.                                                                    *)
C4_TypeTotal ==
    \A e \in BuiltBy("subdiv") :
        /\ e.node.subdiv_type \in subdiv_type_e
        /\ e.node.subdiv_type = NamedType(TypeValue(e.scope))

C4_Witness ==
    \E e \in BuiltBy("subdiv") :
        /\ TypeValue(e.scope) = Str(<<"l", "O", "o", "P">>)
        /\ e.node.subdiv_type = SUBDIV_LOOP

(* C5: newsize has three components: component i is the number at place i   *)
(* of a newsize vector that has one, 0 past the vector's end, and all are 0 *)
(* when newsize is no vector; autosize likewise from a vector of booleans,  *)
(* with false past its end and all false when auto is not bound.            *)
C5_VectorFill ==
    \A e \in BuiltBy("resize") :
        LET ns == e.scope.newsize
            au == e.scope.auto
        IN  /\ Len(e.node.newsize) = 3
            /\ Len(e.node.autosize) = 3
            /\ \A i \in 1..3 :
                /\ ns.tag = "vector" /\ i <= Len(ns.v) /\ ns.v[i].tag = "number" =>
                        e.node.newsize[i] = ns.v[i].n
                /\ ns.tag = "vector" /\ i > Len(ns.v) => e.node.newsize[i] = 0
                /\ ns.tag # "vector" => e.node.newsize[i] = 0
                /\ au.tag = "vector" /\ i <= Len(au.v) /\ au.v[i].tag = "bool" =>
                        e.node.autosize[i] = au.v[i].b
                /\ au.tag = "vector" /\ i > Len(au.v) => e.node.autosize[i] = FALSE
                /\ au.tag = "undefined" => e.node.autosize[i] = FALSE

C5_Witness ==
    \E e \in BuiltBy("resize") :
        /\ e.scope.newsize = Vec(<<Num(15), Num(-29)>>)
        /\ e.scope.auto = Vec(<<Bool(TRUE), Bool(FALSE), Bool(TRUE), Bool(TRUE)>>)
        /\ e.node.newsize = <<15, -29, 0>>
        /\ e.node.autosize = <<TRUE, FALSE, TRUE>>

(* C6: a subdiv call prints the level warning once when the truncated level *)
(* is negative and not otherwise, then the unknown-type warning with the    *)
(* lowered text followed by the setting-to-CatmullClark warning when the    *)
(* type text is unmatched and neither otherwise; minkowski, glide, hull and *)
(* resize calls print nothing.                                              *)
C6_WarningTrace ==
    \A e \in Built :
        IF e.keyword = "subdiv"
        THEN LET lv == LevelValue(e.scope)
                 tv == TypeValue(e.scope)
                 neg == lv.tag = "number" /\ lv.n <= -10
                 w == e.warnings
                 k == IF neg THEN 1 ELSE 0
             IN  /\ Len(w) = k + (IF Unmatched(tv) THEN 2 ELSE 0)
                 /\ neg => w[1] = <<"WARNING: Subdivision cannot be less than 0. Setting to 0.">>
                 /\ Unmatched(tv) =>
                        /\ w[k + 1][1] = "WARNING: unknown subdivision type "
                        /\ tv.tag = "string" =>
                              /\ SameIgnoringCase(Tail(w[k + 1]), tv.s)
                              /\ \A i \in 2..Len(w[k + 1]) :
                                    \A j \in 1..26 : w[k + 1][i] # UpperCase[j]
                        /\ w[k + 2] = <<"WARNING: setting to CatmullClark">>
        ELSE e.warnings = <<>>

C6_Witness ==
    \E e \in BuiltBy("subdiv") :
        /\ e.scope.level = Num(-29)
        /\ e.scope.type = Str(<<"S", "q", "r", "t", "(", "3", ")">>)
        /\ Len(e.warnings) = 3
        /\ e.warnings[2] = <<"WARNING: unknown subdivision type ",
                             "s", "q", "r", "t", "(", "3", ")">>

(* C7: the convexity of a minkowski, glide or subdiv node is the number     *)
(* bound to convexity truncated towards zero; a negative result is stored   *)
(* as it is, and no warning is printed for it.                              *)
C7_ConvexityTruncated ==
    \A e \in BuiltBy("minkowski") \cup BuiltBy("glide") \cup BuiltBy("subdiv") :
        LET cv == e.scope.convexity
        IN  /\ cv.tag = "number" => e.node.convexity = TruncTowardZero(cv.n)
            /\ e.keyword # "subdiv" => e.warnings = <<>>
            /\ e.keyword = "subdiv" =>
                  \A i \in 1..Len(e.warnings) :
                      e.warnings[i] \in {WarnLevel, WarnSetting}
                      \/ e.warnings[i][1] = "WARNING: unknown subdivision type "

C7_Witness ==
    \E e \in BuiltBy("minkowski") :
        /\ e.scope.convexity = Num(-29)
        /\ e.node.convexity = -2
        /\ e.warnings = <<>>

(* C8: every call, whatever tags are bound to the declared parameters,      *)
(* returns a node whose fields are within their domains: a whole-number     *)
(* convexity, for subdiv a level of at least 0 and one of the four          *)
(* enumerators, for resize three numbers and three booleans; all it prints  *)
(* are the three warnings.                                                  *)
C8_AlwaysResolves ==
    \A e \in Built :
        /\ e.node.type \in cgaladv_type_e
        /\ e.node.convexity \in Int
        /\ e.node.type = SUBDIV =>
              /\ e.node.subdiv_level \in Nat
              /\ e.node.subdiv_type \in subdiv_type_e
        /\ e.node.type = RESIZE =>
              /\ Len(e.node.newsize) = 3
              /\ \A i \in 1..3 : e.node.newsize[i] \in Int
              /\ Len(e.node.autosize) = 3
              /\ \A i \in 1..3 : e.node.autosize[i] \in BOOLEAN
        /\ Len(e.warnings) <= 3

C8_Witness ==
    \E e \in BuiltBy("subdiv") :
        /\ e.scope.level.tag = "vector"
        /\ e.scope.type.tag = "bool"
        /\ e.scope.convexity.tag = "string"
        /\ e.node.subdiv_level = 0
        /\ e.node.subdiv_type = SUBDIV_CATMULL_CLARK
        /\ e.node.convexity = 0

\* the pieces of a rendering that name a field
IsLabel(p) ==
    p \in {"(convexity = ", "(path = ", ", convexity = ", "(type = ", ", level = ",
           "()", "(newsize = [", ", auto = ["}

\* the field names of each variant's rendering, in order
FieldOrder(kw) ==
    CASE kw = "minkowski" -> <<"(convexity = ">>
      [] kw = "glide" -> <<"(path = ", ", convexity = ">>
      [] kw = "subdiv" -> <<"(type = ", ", level = ", ", convexity = ">>
      [] kw = "hull" -> <<"()">>
      [] kw = "resize" -> <<"(newsize = [", ", auto = [">>

(* C9: two calls of one module with the same bound values resolve to the    *)
(* same parameters, and two nodes of one variant with equal parameters      *)
(* render the same string, whatever was built before or between them and    *)
(* whatever their other fields and children are; the string is the variant  *)
(* name followed by the variant's fields in their fixed order.              *)
C9_Deterministic ==
    \A i, j \in 1..Len(calls) :
        LET a == calls[i]
            b == calls[j]
        IN  /\ a.keyword = b.keyword /\ a.scope = b.scope =>
                  Params(a.node) = Params(b.node)
            /\ /\ a.rendered /\ b.rendered
               /\ a.node.type = b.node.type
               /\ Params(a.node) = Params(b.node)
               => a.str = b.str
            /\ a.rendered =>
                  /\ a.str[1] = a.keyword
                  /\ SelectSeq(Tail(a.str), IsLabel) = FieldOrder(a.keyword)

C9_Witness ==
    \E i, k, j \in 1..Len(calls) :
        /\ i < k /\ k < j
        /\ calls[i].keyword = "minkowski" /\ calls[j].keyword = "minkowski"
        /\ calls[k].keyword = "resize"
        /\ calls[i].node.subdiv_level # calls[j].node.subdiv_level
        /\ calls[i].node.children = <<>> /\ calls[j].node.children = <<k>>
        /\ calls[i].rendered /\ calls[j].rendered
        /\ calls[j].str = <<"minkowski", "(convexity = ", "2", ")">>

(* C10: once register_builtin_cgaladv has run, each of the five keywords is *)
(* entered exactly once, and the node built by the module under keyword k   *)
(* has name() equal to k; neither name() nor toString() reaches its         *)
(* assert(false) branch.                                                    *)
C10_KeywordRoundTrip ==
    phase = "ready" =>
        /\ \A kw \in Keywords :
              Cardinality({i \in 1..Len(builtins) : builtins[i].name = kw}) = 1
        /\ Len(builtins) = Cardinality(Keywords)
        /\ \A e \in Built :
              /\ e.keyword \in Keywords
              /\ e.rendered =>
                    /\ e.name = e.keyword
                    /\ e.name # AssertFailed
                    /\ AssertFailed \notin Range(e.str)

C10_Witness ==
    \E e \in BuiltBy("hull") :
        /\ e.rendered
        /\ e.name = "hull"
        /\ e.str = <<"hull", "()">>

====
